---- MODULE Spec2Model ----
(***************************************************************************)
(* The MedTeach rounding application (mathewjm22/medteach): the App        *)
(* component's session state and handlers, in its two variants, and the    *)
(* text processing behind "start case" and "review".                       *)
(*                                                                         *)
(* A narrative is a sequence of characters.  The characters the regular    *)
(* expressions of the source tell apart are kept apart:                    *)
(*   "FD"  the literal "Final Diagnosis" in any letter case (both marker   *)
(*         expressions carry the i flag; the literal cannot overlap itself)*)
(*   ":"   a colon            " "  a blank (whitespace other than \n)      *)
(*   "LF"  a line feed        "."  a sentence terminator (one of . ! ?)    *)
(*   "a"   an ordinary character                                           *)
(*   "ns"  the words "not specified" (what fetchTeachingData looks for)    *)
(***************************************************************************)
EXTENDS Integers, Sequences, FiniteSets, TLC

Marker == "FD"
Colon == ":"
Blank == " "
LineFeed == "LF"
Terminator == "."
Letter == "a"
NotSpecifiedWords == "ns"

Alphabet == {Marker, Colon, Blank, LineFeed, Terminator, Letter, NotSpecifiedWords}

\* \s of the regular expressions, and what String.prototype.trim removes
IsSpace(c) == c = Blank \/ c = LineFeed

\* [:\s]
IsSeparator(c) == c = Colon \/ IsSpace(c)

\* [.!?]
IsTerminator(c) == c = Terminator

RECURSIVE TrimStart(_)
TrimStart(s) ==
  IF s # <<>> /\ IsSpace(Head(s)) THEN TrimStart(Tail(s)) ELSE s

RECURSIVE TrimEnd(_)
TrimEnd(s) ==
  IF s # <<>> /\ IsSpace(s[Len(s)]) THEN TrimEnd(SubSeq(s, 1, Len(s) - 1)) ELSE s

\* String.prototype.trim
Trim(s) == TrimEnd(TrimStart(s))

\* Array.prototype.join('')
RECURSIVE Join(_)
Join(ss) == IF ss = <<>> THEN <<>> ELSE Head(ss) \o Join(Tail(ss))

\* the character classes of the regular expressions, as sets
Spaces == {c \in Alphabet : IsSpace(c)}
Separators == {c \in Alphabet : IsSeparator(c)}
Terminators == {c \in Alphabet : IsTerminator(c)}
NotLineFeed == Alphabet \ {LineFeed}
NotTerminator == Alphabet \ Terminators

\* the largest e >= i - 1 such that every character of s[i..e] is in class
RunEnd(s, i, class) ==
  LET RECURSIVE Go(_)
      Go(e) == IF e + 1 <= Len(s) /\ s[e + 1] \in class THEN Go(e + 1) ELSE e
  IN Go(i - 1)

(***************************************************************************)
(* /Final Diagnosis[:\s]+[^\n]+/i tried at position i of s: the position   *)
(* where [^\n]+ starts, or 0 when there is no match at i.  [:\s]+ is       *)
(* greedy and gives characters back until a character other than a line    *)
(* feed follows it.                                                        *)
(***************************************************************************)
MarkerValueStart(s, i) ==
  IF i > Len(s) \/ s[i] # Marker THEN 0
  ELSE LET r == RunEnd(s, i + 1, Separators)
           K == {q \in (i + 2)..(r + 1) : q <= Len(s) /\ s[q] # LineFeed}
       IN IF K = {} THEN 0 ELSE CHOOSE q \in K : \A q2 \in K : q2 <= q

\* where the greedy [^\n]+ that starts at q ends
MarkerMatchEnd(s, q) == RunEnd(s, q, NotLineFeed)

\* caseText.replace(/Final Diagnosis[:\s]+[^\n]+/gi, '')
ReplaceMarker(s) ==
  LET RECURSIVE Go(_)
      Go(i) ==
        IF i > Len(s) THEN <<>>
        ELSE LET q == MarkerValueStart(s, i)
             IN IF q = 0 THEN <<s[i]>> \o Go(i + 1)
                ELSE Go(MarkerMatchEnd(s, q) + 1)
  IN Go(1)

\* text.split('\n')
RECURSIVE SplitLines(_)
SplitLines(s) ==
  LET e == RunEnd(s, 1, NotLineFeed)
  IN IF e = Len(s) THEN <<s>>
     ELSE <<SubSeq(s, 1, e)>> \o SplitLines(SubSeq(s, e + 2, Len(s)))

\* line.match(/Final Diagnosis[:\s]+([^\n]+)/i): the leftmost position that matches, or 0
MarkerMatchAt(line) ==
  LET P == {p \in 1..Len(line) : MarkerValueStart(line, p) # 0}
  IN IF P = {} THEN 0 ELSE CHOOSE p \in P : \A p2 \in P : p <= p2

\* match[1]: the capture group of the leftmost match in the line
MarkerCapture(line) ==
  LET q == MarkerValueStart(line, MarkerMatchAt(line))
  IN SubSeq(line, q, MarkerMatchEnd(line, q))

\* match[0]: the whole text of the leftmost match in the line
MarkerMatchText(line) ==
  LET p == MarkerMatchAt(line)
  IN SubSeq(line, p, MarkerMatchEnd(line, MarkerValueStart(line, p)))

\* a scan of the lines from the first to the last
ScanOrderFirstToLast(n, k) == k

\* the order in which extractFinalDiagnosis visits the lines: from the last to the first
ScanOrder(n, k) == n + 1 - k

\* extractFinalDiagnosis
extractFinalDiagnosis(text) ==
  LET lines == SplitLines(text)
      RECURSIVE Go(_)
      Go(k) ==
        IF k > Len(lines) THEN <<>>
        ELSE LET line == Trim(lines[ScanOrder(Len(lines), k)])
             IN IF MarkerMatchAt(line) # 0 THEN Trim(MarkerCapture(line))
                ELSE Go(k + 1)
  IN Go(1)

(***************************************************************************)
(* /[^.!?]+[.!?]+(?:\s+|$)/ (manySpaces) or /[^.!?]+[.!?]+(?:\s|$)/ tried  *)
(* at position p: the position where the match ends, or 0.  Neither        *)
(* expression has the m flag, so $ is the end of the text.                 *)
(***************************************************************************)
SentenceMatchEnd(s, p, manySpaces) ==
  IF p > Len(s) \/ IsTerminator(s[p]) THEN 0
  ELSE LET r == RunEnd(s, p, NotTerminator)
           t == RunEnd(s, r + 1, Terminators)
       IN IF t = r THEN 0
          ELSE IF t = Len(s) THEN t
          ELSE IF IsSpace(s[t + 1])
               THEN (IF manySpaces THEN RunEnd(s, t + 1, Spaces) ELSE t + 1)
          ELSE 0

\* s.match(/.../g): every match, from left to right, without overlap
MatchSentences(s, manySpaces) ==
  LET RECURSIVE Go(_)
      Go(p) ==
        IF p > Len(s) THEN <<>>
        ELSE LET e == SentenceMatchEnd(s, p, manySpaces)
             IN IF e = 0 THEN Go(p + 1) ELSE <<SubSeq(s, p, e)>> \o Go(e + 1)
  IN Go(1)

\* s.match(/.../g) || [s]
Sentences(s, manySpaces) ==
  LET m == MatchSentences(s, manySpaces)
  IN IF m = <<>> THEN <<s>> ELSE m

sentencesPerChunk == 5

\* a slice that runs to the end of the sentences
SliceToEnd(sentences, i) == SubSeq(sentences, i + 1, Len(sentences))

\* sentences.slice(i, i + sentencesPerChunk), i counted from 0
Slice(sentences, i) ==
  SubSeq(sentences, i + 1, IF i + sentencesPerChunk < Len(sentences)
                           THEN i + sentencesPerChunk ELSE Len(sentences))

\* the for loop over the sentences; keepEmpty: the variant pushes a chunk that trims to ''
GroupSentences(sentences, keepEmpty) ==
  LET RECURSIVE Go(_)
      Go(i) ==
        IF i >= Len(sentences) THEN <<>>
        ELSE LET chunk == Trim(Join(Slice(sentences, i)))
             IN (IF chunk # <<>> \/ keepEmpty THEN <<chunk>> ELSE <<>>)
                \o Go(i + sentencesPerChunk)
  IN Go(0)

(***************************************************************************)
(* /\n\s*\n/ tried at position p: where the match ends, or 0.  \s* is      *)
(* greedy over blanks and line feeds and gives back to the last line feed. *)
(***************************************************************************)
ParagraphBreakEnd(s, p) ==
  IF p > Len(s) \/ s[p] # LineFeed THEN 0
  ELSE LET w == RunEnd(s, p + 1, Spaces)
           E == {e \in (p + 1)..w : s[e] = LineFeed}
       IN IF E = {} THEN 0 ELSE CHOOSE e \in E : \A e2 \in E : e2 <= e

\* caseText.split(/\n\s*\n/)
RECURSIVE SplitParagraphs(_)
SplitParagraphs(s) ==
  LET P == {p \in 1..Len(s) : ParagraphBreakEnd(s, p) # 0}
  IN IF P = {} THEN <<s>>
     ELSE LET p == CHOOSE x \in P : \A y \in P : x <= y
          IN <<SubSeq(s, 1, p - 1)>>
             \o SplitParagraphs(SubSeq(s, ParagraphBreakEnd(s, p) + 1, Len(s)))

\* .filter(p => p.trim().length > 0)
RECURSIVE NonBlankOnly(_)
NonBlankOnly(ps) ==
  IF ps = <<>> THEN <<>>
  ELSE (IF Trim(Head(ps)) # <<>> THEN <<Head(ps)>> ELSE <<>>) \o NonBlankOnly(Tail(ps))

\* the text startCase of the whole-text variant splits into sentences
textWithoutSolution(caseText) == Trim(ReplaceMarker(caseText))

\* resultChunks of the whole-text variant (part_000)
ChunksWholeText(caseText) ==
  GroupSentences(Sentences(textWithoutSolution(caseText), TRUE), FALSE)

\* resultChunks of the paragraph variant (part_001)
ChunksByParagraph(caseText) ==
  LET paragraphs == NonBlankOnly(SplitParagraphs(caseText))
      RECURSIVE Go(_)
      Go(k) ==
        IF k > Len(paragraphs) THEN <<>>
        ELSE GroupSentences(Sentences(paragraphs[k], FALSE), TRUE) \o Go(k + 1)
  IN Go(1)


(***************************************************************************)
(* The App component.  Its useState cells are the variables; variant says  *)
(* which of the two versions of the component is running, harness whether  *)
(* the handlers are reached through the rendered controls ("ui") or called *)
(* directly ("handlers").  ignored names the handler whose last call        *)
(* returned without doing anything, "none" after a call that went through. *)
(***************************************************************************)
VARIABLES variant, harness, caseText, chunks, visibleIndex, isCaseLoaded,
          differentials, labs, diagnostics, treatments, reviewMode,
          finalDiagnosis, teachingPoints, studentLevel, loadingPoints,
          fetches, ignored, settled

vars == <<variant, harness, caseText, chunks, visibleIndex, isCaseLoaded,
          differentials, labs, diagnostics, treatments, reviewMode,
          finalDiagnosis, teachingPoints, studentLevel, loadingPoints,
          fetches, ignored, settled>>

\* the four entry lists
entryLists == <<differentials, labs, diagnostics, treatments>>

\* every cell of the session except the raw text
derivedState == <<chunks, visibleIndex, isCaseLoaded, differentials, labs,
                  diagnostics, treatments, reviewMode, finalDiagnosis,
                  teachingPoints, studentLevel, loadingPoints>>

WholeText == "part_000"
ByParagraph == "part_001"
Variants == {WholeText, ByParagraph}

StudentLevel == {"MS-1", "MS-2", "MS-3", "MS-4", "Intern (PGY-1)"}

\* relevanceScore?: number, when absent
Undefined == -1

\* "Diagnosis not specified in text"
DiagnosisNotSpecified == <<Letter, Blank, NotSpecifiedWords, Blank, Letter>>

\* String.prototype.includes("not specified")
IncludesNotSpecified(s) == \E i \in 1..Len(s) : s[i] = NotSpecifiedWords

(***************************************************************************)
(* Bounds of the model and the inputs drawn within them.                   *)
(***************************************************************************)
MaxNarrativeLen == 4
MaxEntries == 1
MaxInFlight == 1
\* the entries of the four lists together when all four lists are filled
MaxListEntries == 2
\* the calls in flight when the learner level is changed before the answers arrive
MaxOverlap == 2

SeqsUpTo(S, n) == UNION {[1..k -> S] : k \in 0..n}

RECURSIVE Repeat(_, _)
Repeat(s, n) == IF n = 0 THEN <<>> ELSE s \o Repeat(s, n - 1)

\* one sentence more than a chunk holds: "a. a. a. a. a. a. "
LongNarrative == Repeat(<<Letter, Terminator, Blank>>, sentencesPerChunk + 1)

\* "Final Diagnosis: a" and a line feed
MarkedLine == <<Marker, Colon, Blank, Letter, LineFeed>>

Openings == {<<>>, LongNarrative, MarkedLine}

\* the narratives the text processing is tried on: an opening followed by any short text
Narratives(n) == {o \o t : o \in Openings, t \in SeqsUpTo(Alphabet, n)}

\* what the instructor pastes in a session: a narrative of two chunks, the marker line
\* alone, and a narrative of two chunks that ends with the marker line
PastedNarratives == {LongNarrative, MarkedLine, LongNarrative \o MarkedLine}

\* a narrative of two chunks that ends with the marker line
MarkedNarratives == {LongNarrative \o MarkedLine}

\* the same, and what leaves the textarea empty or blank
TypedNarratives ==
  {LongNarrative, MarkedLine, LongNarrative \o MarkedLine, <<>>, <<Blank>>}

\* what is in the textarea when a case is started again: a narrative of two chunks that
\* begins with the marker line, or a blank
RetypedNarratives == {MarkedLine \o LongNarrative, <<Blank>>}

\* the learner levels the instructor selects in a session
SelectedLevels == {"MS-3", "MS-4"}

\* what a student may type into a list's input: nothing, a blank, and two entries
EntryInputs == {<<>>, <<Blank>>, <<Blank, Letter>>, <<NotSpecifiedWords>>}

\* the inputs among them that make an entry
TextInputs == {<<Blank, Letter>>, <<NotSpecifiedWords>>}

\* one entry, typed with a blank before it
OneTextInputs == {<<Blank, Letter>>}

\* the same with one entry only
OneEntryInputs == {<<>>, <<Blank>>, <<Blank, Letter>>}

\* Math.random().toString(36).substr(2, 9): any identifier may come out
EntryIds(limit) == 1..limit

\* the list the review scores
ScoredLists == {"differentials"}

ListNames == {"differentials", "labs", "diagnostics", "treatments"}

ListOf(name) ==
  CASE name = "differentials" -> differentials
    [] name = "labs" -> labs
    [] name = "diagnostics" -> diagnostics
    [] name = "treatments" -> treatments

TotalEntries == Len(differentials) + Len(labs) + Len(diagnostics) + Len(treatments)

\* listSetter(...) / setList(...): one list is replaced, the others are left alone
SetList(name, new) ==
  /\ differentials' = IF name = "differentials" THEN new ELSE differentials
  /\ labs' = IF name = "labs" THEN new ELSE labs
  /\ diagnostics' = IF name = "diagnostics" THEN new ELSE diagnostics
  /\ treatments' = IF name = "treatments" THEN new ELSE treatments

\* differentials.map(d => d.text)
RECURSIVE TextsOf(_)
TextsOf(list) == IF list = <<>> THEN <<>> ELSE <<Head(list).text>> \o TextsOf(Tail(list))

(***************************************************************************)
(* What the component renders, which is what the user can reach.           *)
(***************************************************************************)
Reachable(shown) == harness = "handlers" \/ shown

\* the paste screen: if (!isCaseLoaded) return (...)
PasteScreenShown == ~isCaseLoaded

\* <button onClick={startCase} disabled={!caseText.trim()}>
StartControlEnabled == ~isCaseLoaded /\ Trim(caseText) # <<>>

\* a reveal control that stays in place in the review
RevealControlShownInReview == isCaseLoaded /\ visibleIndex < Len(chunks)

\* {!reviewMode && visibleIndex < chunks.length && (<button onClick={nextParagraph}>)}
RevealControlShown == isCaseLoaded /\ ~reviewMode /\ visibleIndex < Len(chunks)

\* {!reviewMode && (<button onClick={handleReview}>)}
ReviewControlShown == isCaseLoaded /\ ~reviewMode

\* the ListManagers are rendered in the right column only outside review mode
ListManagersShown == isCaseLoaded /\ ~reviewMode

\* the learner-level select is rendered in the review panel
LevelSelectShown == isCaseLoaded /\ reviewMode

\* the "New Case" buttons of the case screen
ResetControlShown == isCaseLoaded

(***************************************************************************)
(* The review fetch: fetchTeachingData (part_000) / fetchTeaching          *)
(* (part_001), called by the effect.                                       *)
(***************************************************************************)
\* a guard without the test for the placeholder
FetchGuardAnyDiagnosis(diagnosis) == diagnosis # <<>>

\* if (!finalDiagnosis || finalDiagnosis.includes("not specified")) return;  /  if (!finalDiagnosis) return;
FetchGuard(diagnosis) ==
  /\ diagnosis # <<>>
  /\ variant = WholeText => ~IncludesNotSpecified(diagnosis)

\* a dependency array that lists the teaching points too
EffectDepsWithTeachingPoints ==
  <<studentLevel, reviewMode, finalDiagnosis, Len(differentials), teachingPoints>>

\* the dependency array of the effect, with fetchTeachingData's own in part_000
EffectDeps ==
  IF variant = WholeText
  THEN <<studentLevel, reviewMode, finalDiagnosis, Len(differentials)>>
  ELSE <<studentLevel, reviewMode, finalDiagnosis>>

\* the request the call starts with: getTeachingPoints alone, or both under Promise.all
FirstStage == IF variant = WholeText THEN "points" ELSE "all"

\* the effect runs the fetch after the render that follows a step: a dependency has
\* changed, reviewMode && finalDiagnosis holds, and the fetch passes its own guard; the
\* step's own updates are the primed variables
EffectFetches ==
  /\ EffectDeps' # EffectDeps
  /\ reviewMode'
  /\ finalDiagnosis' # <<>>
  /\ FetchGuard(finalDiagnosis')

\* what the call takes from the render it is made in
FetchOfRender ==
  [diagnosis |-> finalDiagnosis', level |-> studentLevel',
   texts |-> TextsOf(differentials'), stage |-> FirstStage]

\* the effect after a step that leaves the calls `left` in flight and the loading flag at
\* `loading`: setLoadingPoints(true) and one more call in flight, as long as fewer than
\* limit are, or nothing
RunEffectWithin(left, loading, limit) ==
  IF EffectFetches
  THEN /\ Len(left) < limit
       /\ loadingPoints' = TRUE
       /\ fetches' = Append(left, FetchOfRender)
  ELSE /\ loadingPoints' = loading
       /\ fetches' = left

RunEffectAfter(left, loading) == RunEffectWithin(left, loading, MaxInFlight)

\* useEffect(() => { if (reviewMode && finalDiagnosis) fetch(); }, deps), after the render
\* that follows a handler
RunEffect == RunEffectAfter(fetches, loadingPoints)

\* what an awaited request has come to in the last step: an answer, a rejection, or nothing
Answer(status, value) == [status |-> status, value |-> value]
NoAnswer == Answer("none", <<>>)
Rejected == Answer("rejected", <<>>)
Resolved(value) == Answer("resolved", value)

\* no request was settled in the step
Unsettled == [points |-> NoAnswer, scores |-> NoAnswer]

(***************************************************************************)
(* The handlers.                                                           *)
(***************************************************************************)
\* the useState initial values
Mounted ==
  /\ variant \in Variants
  /\ chunks = <<>>
  /\ visibleIndex = 0
  /\ isCaseLoaded = FALSE
  /\ differentials = <<>>
  /\ labs = <<>>
  /\ diagnostics = <<>>
  /\ treatments = <<>>
  /\ reviewMode = FALSE
  /\ finalDiagnosis = <<>>
  /\ teachingPoints = <<>>
  /\ studentLevel = "MS-3"
  /\ loadingPoints = FALSE
  /\ fetches = <<>>
  /\ ignored = "none"
  /\ settled = Unsettled

Init == Mounted /\ harness = "ui" /\ caseText = <<>>

\* the handlers called directly, whatever is rendered
InitHandlers == Mounted /\ harness = "handlers" /\ caseText = <<>>

\* a narrative has been pasted into the paste screen
InitText == Mounted /\ harness = "ui" /\ caseText \in Narratives(MaxNarrativeLen)

\* handleCaseUpload: setCaseText(e.target.value), the value one of texts
HandleCaseUpload(texts) ==
  /\ Reachable(PasteScreenShown)
  /\ settled' = Unsettled
  /\ \E text \in texts : caseText' = text
  /\ ignored' = "none"
  /\ UNCHANGED <<variant, harness, derivedState, fetches>>

\* the chunking of part_000 whichever variant runs
resultChunksOfWholeText(text) == ChunksWholeText(text)

\* resultChunks of startCase
resultChunks(text) ==
  IF variant = WholeText THEN ChunksWholeText(text) ELSE ChunksByParagraph(text)

\* a test of the narrative without the trim
NarrativeIsEmpty(text) == text = <<>>

\* if (!caseText.trim()) return;
NarrativeIsBlank(text) == Trim(text) = <<>>

\* startCase
StartCase ==
  /\ Reachable(StartControlEnabled)
  /\ settled' = Unsettled
  /\ IF NarrativeIsBlank(caseText)
     THEN /\ ignored' = "startCase"
          /\ UNCHANGED <<variant, harness, caseText, derivedState, fetches>>
     ELSE /\ ignored' = "none"
          /\ chunks' = resultChunks(caseText)
          /\ visibleIndex' = 1
          /\ isCaseLoaded' = TRUE
          /\ reviewMode' = FALSE
          /\ differentials' = <<>>
          /\ labs' = <<>>
          /\ diagnostics' = <<>>
          /\ treatments' = <<>>
          /\ finalDiagnosis' = <<>>
          /\ teachingPoints' = <<>>
          /\ UNCHANGED <<variant, harness, caseText, studentLevel>>
          /\ RunEffect

\* a comparison that is off by one
CanRevealNextAtEnd(visible, count) == visible <= count

\* if (visibleIndex < chunks.length)
CanRevealNext(visible, count) == visible < count

\* nextParagraph
NextParagraph ==
  /\ Reachable(RevealControlShown)
  /\ settled' = Unsettled
  /\ IF CanRevealNext(visibleIndex, Len(chunks))
     THEN visibleIndex' = visibleIndex + 1 /\ ignored' = "none"
     ELSE UNCHANGED visibleIndex /\ ignored' = "nextParagraph"
  /\ UNCHANGED <<variant, harness, caseText, chunks, isCaseLoaded, entryLists,
                 reviewMode, finalDiagnosis, teachingPoints, studentLevel,
                 loadingPoints, fetches>>

\* a test of the value without the trim
EntryIsEmpty(value) == value = <<>>

\* if (!value.trim()) return;
EntryIsBlank(value) == Trim(value) = <<>>

\* an entry that keeps the text as typed
NewEntryAsTyped(id, value) == [id |-> id, text |-> value, relevanceScore |-> Undefined]

\* { id: Math.random().toString(36).substr(2, 9), text: value.trim() }
NewEntry(id, value) == [id |-> id, text |-> Trim(value), relevanceScore |-> Undefined]

\* addEntry(listSetter, value), in one of the ListManagers named, the value one of values,
\* as long as the lists hold fewer than limit entries
AddEntry(names, values, limit) ==
  /\ Reachable(ListManagersShown)
  /\ settled' = Unsettled
  /\ \E name \in names, value \in values, id \in EntryIds(limit) :
       IF EntryIsBlank(value)
       THEN UNCHANGED entryLists /\ ignored' = "addEntry"
       ELSE /\ TotalEntries < limit
            /\ ignored' = "none"
            /\ SetList(name, Append(ListOf(name), NewEntry(id, value)))
  /\ UNCHANGED <<variant, harness, caseText, chunks, visibleIndex, isCaseLoaded,
                 reviewMode, finalDiagnosis, teachingPoints, studentLevel>>
  /\ RunEffect

\* a reorder that inserts the entry before it removes it
ReorderInsertFirst(list, from, to) ==
  LET item == list[from + 1]
      more == SubSeq(list, 1, to) \o <<item>> \o SubSeq(list, to + 1, Len(list))
  IN SubSeq(more, 1, from) \o SubSeq(more, from + 2, Len(more))

\* items.splice(from, 1) then items.splice(to, 0, item), indices counted from 0
Reorder(list, from, to) ==
  LET item == list[from + 1]
      rest == SubSeq(list, 1, from) \o SubSeq(list, from + 2, Len(list))
  IN SubSeq(rest, 1, to) \o <<item>> \o SubSeq(rest, to + 1, Len(rest))

\* onDragEnd(result, list, setList) in the ListManager of one list, the entry at from
\* dropped at to; to = -1 stands for result.destination == null
DragEnd(name, from, to) ==
  /\ Reachable(ListManagersShown)
  /\ settled' = Unsettled
  /\ from \in 0..(Len(ListOf(name)) - 1)
  /\ to \in -1..(Len(ListOf(name)) - 1)
  /\ IF to = -1
     THEN UNCHANGED entryLists /\ ignored' = "onDragEnd"
     ELSE SetList(name, Reorder(ListOf(name), from, to)) /\ ignored' = "none"
  /\ UNCHANGED <<variant, harness, caseText, chunks, visibleIndex, isCaseLoaded,
                 reviewMode, finalDiagnosis, teachingPoints, studentLevel>>
  /\ RunEffect

\* onDragEnd in one of the ListManagers named
OnDragEnd(names) ==
  \E name \in names :
    \E from \in 0..(Len(ListOf(name)) - 1), to \in -1..(Len(ListOf(name)) - 1) :
      DragEnd(name, from, to)

\* const diagnosis = extracted || "Diagnosis not specified in text"  /  extracted
ReviewDiagnosis(extracted) ==
  IF variant = WholeText /\ extracted = <<>> THEN DiagnosisNotSpecified ELSE extracted

\* handleReview
HandleReview ==
  /\ Reachable(ReviewControlShown)
  /\ settled' = Unsettled
  /\ ignored' = "none"
  /\ finalDiagnosis' = ReviewDiagnosis(extractFinalDiagnosis(caseText))
  /\ reviewMode' = TRUE
  /\ UNCHANGED <<variant, harness, caseText, chunks, visibleIndex, isCaseLoaded,
                 entryLists, teachingPoints, studentLevel>>
  /\ RunEffect

\* onChange={(e) => setStudentLevel(e.target.value as StudentLevel)}, as long as fewer
\* than limit calls are in flight
SetStudentLevelWithin(limit) ==
  /\ Reachable(LevelSelectShown)
  /\ settled' = Unsettled
  /\ ignored' = "none"
  /\ \E level \in SelectedLevels \ {studentLevel} : studentLevel' = level
  /\ UNCHANGED <<variant, harness, caseText, chunks, visibleIndex, isCaseLoaded,
                 entryLists, reviewMode, finalDiagnosis, teachingPoints>>
  /\ RunEffectWithin(fetches, loadingPoints, limit)

SetStudentLevel == SetStudentLevelWithin(MaxInFlight)

\* setChunks([]); setVisibleIndex(0); only part_000 has these two lines
ResetChunks(c) == IF variant = WholeText THEN <<>> ELSE c
ResetVisibleIndex(v) == IF variant = WholeText THEN 0 ELSE v

\* reset
Reset ==
  /\ Reachable(ResetControlShown)
  /\ settled' = Unsettled
  /\ ignored' = "none"
  /\ isCaseLoaded' = FALSE
  /\ reviewMode' = FALSE
  /\ caseText' = <<>>
  /\ finalDiagnosis' = <<>>
  /\ teachingPoints' = <<>>
  /\ chunks' = ResetChunks(chunks)
  /\ visibleIndex' = ResetVisibleIndex(visibleIndex)
  /\ UNCHANGED <<variant, harness, entryLists, studentLevel>>
  /\ RunEffect


(***************************************************************************)
(* The continuations of the review fetch, one per settled await.           *)
(***************************************************************************)
\* const API_KEY = process.env.API_KEY || '': not set in the build, or set
NoApiKey == ""
ApiKeys == {"", "key"}

\* what await ai.models.generateContent(...) comes to: it throws (the network or the
\* service fails), or it returns a response whose text is undefined, is no JSON, or is
\* the JSON of the teaching points
GenerateContentOutcomes == {"throws", "no text", "not JSON", "JSON"}

\* getTeachingPoints(diagnosis, level) of geminiService.ts, as the promise it returns
\* settles: the key is tested first, generateContent is awaited outside the try block,
\* and only JSON.parse(response.text || "[]") is inside it
getTeachingPoints(apiKey, outcome, f) ==
  IF apiKey = NoApiKey THEN Resolved(<<>>)
  ELSE IF outcome = "throws" THEN Rejected
  ELSE IF outcome = "no text" THEN Resolved(<<>>)
  ELSE IF outcome = "not JSON" THEN Resolved(<<>>)
  ELSE Resolved(<<[title |-> "pearl", level |-> f.level]>>)

\* how the call of a fetch may settle, whatever the build and the service
TeachingAnswers(f) ==
  {getTeachingPoints(apiKey, outcome, f) :
     apiKey \in ApiKeys, outcome \in GenerateContentOutcomes}

\* what the teaching service may answer to getTeachingPoints(diagnosis, level)
TeachingResponses(f) ==
  {answer.value : answer \in {a \in TeachingAnswers(f) : a.status = "resolved"}}

\* the ways in which getTeachingPoints(diagnosis, level) rejects
TeachingRejections(f) == {a \in TeachingAnswers(f) : a.status = "rejected"}

\* what it may answer to assessDifferentials(diagnosis, texts): a score for the first
\* positions, the later ones missing (scores[i] || 0 makes a missing score and a 0 the same)
Scores == {90}
ScoreResponses(f) == SeqsUpTo(Scores, Len(f.texts))

\* a merge that gives every entry the first score returned
MergeFirstScore(prev, scores) ==
  [i \in 1..Len(prev) |->
     [prev[i] EXCEPT !.relevanceScore = IF 1 <= Len(scores) THEN scores[1] ELSE 0]]

\* prev.map((d, i) => ({ ...d, relevanceScore: scores[i] || 0 }))
MergeScores(prev, scores) ==
  [i \in 1..Len(prev) |->
     [prev[i] EXCEPT !.relevanceScore = IF i <= Len(scores) THEN scores[i] ELSE 0]]

\* a continuation that drops the answer of a call made for another level than the
\* one selected now
setTeachingPointsOfCurrentLevel(f, points) ==
  IF f.level = studentLevel THEN points ELSE teachingPoints

\* setTeachingPoints(points) in the continuation of the call f: the answer replaces the
\* teaching points, whatever the call was made for
setTeachingPoints(f, points) == points

RemoveAt(seq, i) == SubSeq(seq, 1, i - 1) \o SubSeq(seq, i + 1, Len(seq))

\* a catch that empties the teaching points
catchAndClear(points) == <<>>

\* catch (err) { console.error(...) }: the teaching points are left as they are
catchError(points) == points

\* a call without the finally block
finallyOmitted(loading) == loading

\* finally { setLoadingPoints(false) }
finallyLoadingPoints(loading) == FALSE

\* part_000: await getTeachingPoints resolves; setTeachingPoints(points); then the
\* scores are awaited if the closure's differentials were not empty
ResolveTeachingPoints ==
  /\ ignored' = "none"
  /\ UNCHANGED <<variant, harness, caseText, chunks, visibleIndex, isCaseLoaded,
                 entryLists, reviewMode, finalDiagnosis, studentLevel>>
  /\ \E i \in 1..Len(fetches) :
       /\ fetches[i].stage = "points"
       /\ \E points \in TeachingResponses(fetches[i]) :
            /\ teachingPoints' = setTeachingPoints(fetches[i], points)
            /\ settled' = [points |-> Resolved(points), scores |-> NoAnswer]
       /\ IF Len(fetches[i].texts) > 0
          THEN RunEffectAfter([fetches EXCEPT ![i].stage = "scores"], loadingPoints)
          ELSE RunEffectAfter(RemoveAt(fetches, i), finallyLoadingPoints(loadingPoints))

\* part_000: await assessDifferentials resolves; setDifferentials(prev => ...); finally
ResolveAssessment ==
  /\ ignored' = "none"
  /\ UNCHANGED <<variant, harness, caseText, chunks, visibleIndex, isCaseLoaded, labs,
                 diagnostics, treatments, reviewMode, finalDiagnosis, teachingPoints,
                 studentLevel>>
  /\ \E i \in 1..Len(fetches) :
       /\ fetches[i].stage = "scores"
       /\ \E scores \in ScoreResponses(fetches[i]) :
            /\ differentials' = MergeScores(differentials, scores)
            /\ settled' = [points |-> NoAnswer, scores |-> Resolved(scores)]
       /\ RunEffectAfter(RemoveAt(fetches, i), finallyLoadingPoints(loadingPoints))

\* part_001: await Promise.all resolves; setTeachingPoints; setDifferentials; finally
ResolveAll ==
  /\ ignored' = "none"
  /\ UNCHANGED <<variant, harness, caseText, chunks, visibleIndex, isCaseLoaded, labs,
                 diagnostics, treatments, reviewMode, finalDiagnosis, studentLevel>>
  /\ \E i \in 1..Len(fetches) :
       /\ fetches[i].stage = "all"
       /\ \E points \in TeachingResponses(fetches[i]) :
            /\ teachingPoints' = setTeachingPoints(fetches[i], points)
            /\ IF Len(fetches[i].texts) > 0
               THEN \E scores \in ScoreResponses(fetches[i]) :
                      /\ differentials' = MergeScores(differentials, scores)
                      /\ settled' = [points |-> Resolved(points),
                                     scores |-> Resolved(scores)]
               ELSE /\ UNCHANGED differentials
                    /\ settled' = [points |-> Resolved(points), scores |-> NoAnswer]
       /\ RunEffectAfter(RemoveAt(fetches, i), finallyLoadingPoints(loadingPoints))

\* the requests of a call of which one has been rejected: the one awaited in part_000;
\* in part_001 either of the two under Promise.all, the teaching points having been
\* answered or not when it is the scores that are refused
RejectedRequests(f) ==
  CASE f.stage = "points" ->
         {[points |-> answer, scores |-> NoAnswer] : answer \in TeachingRejections(f)}
    [] f.stage = "scores" -> {[points |-> NoAnswer, scores |-> Rejected]}
    [] f.stage = "all" ->
         {[points |-> answer, scores |-> NoAnswer] : answer \in TeachingRejections(f)}
           \cup (IF Len(f.texts) > 0
                 THEN {[points |-> Resolved(points), scores |-> Rejected] :
                         points \in TeachingResponses(f)}
                 ELSE {})

\* the awaited promise rejects (generateContent throws): catch, console.error, finally
RejectRequest ==
  /\ ignored' = "none"
  /\ UNCHANGED <<variant, harness, caseText, chunks, visibleIndex, isCaseLoaded,
                 entryLists, reviewMode, finalDiagnosis, studentLevel>>
  /\ teachingPoints' = catchError(teachingPoints)
  /\ \E i \in 1..Len(fetches) :
       /\ \E outcome \in RejectedRequests(fetches[i]) : settled' = outcome
       /\ RunEffectAfter(RemoveAt(fetches, i), finallyLoadingPoints(loadingPoints))

Next ==
  \/ HandleCaseUpload(PastedNarratives)
  \/ StartCase
  \/ NextParagraph
  \/ AddEntry(ScoredLists, OneEntryInputs, MaxEntries)
  \/ OnDragEnd(ScoredLists)
  \/ HandleReview
  \/ SetStudentLevel
  \/ Reset
  \/ ResolveTeachingPoints
  \/ ResolveAssessment
  \/ ResolveAll
  \/ RejectRequest

\* the session as the user drives it through the rendered controls; of the four lists the
\* students fill the differentials, the one list the review reads
Spec == Init /\ [][Next]_vars

\* the handlers of the disclosure and of the review called directly, in any order,
\* whatever is rendered
NextHandlers ==
  \/ HandleCaseUpload(TypedNarratives)
  \/ StartCase
  \/ NextParagraph
  \/ HandleReview
  \/ SetStudentLevel
  \/ Reset
  \/ ResolveTeachingPoints
  \/ ResolveAll
  \/ RejectRequest

SpecHandlers == InitHandlers /\ [][NextHandlers]_vars

\* the text processing: a pasted narrative is started, disclosed and reviewed, and the
\* learner level changed in the review
NextText ==
  \/ StartCase
  \/ NextParagraph
  \/ HandleReview
  \/ SetStudentLevel

SpecText == InitText /\ [][NextText]_vars


\* the chunking alone: a pasted narrative is started
NextChunks == StartCase

SpecChunks == InitText /\ [][NextChunks]_vars

\* the four lists: the students fill and reorder them, and a new case is started
InitLists == Mounted /\ harness = "ui" /\ caseText \in MarkedNarratives

NextLists ==
  \/ HandleCaseUpload(MarkedNarratives)
  \/ StartCase
  \/ AddEntry(ListNames, EntryInputs, MaxListEntries)
  \/ OnDragEnd(ListNames)
  \/ Reset

SpecLists == InitLists /\ [][NextLists]_vars

\* the review of a case with several differentials: the requests are answered in full, in
\* part or refused, and the learner level is changed
NextReview ==
  \/ StartCase
  \/ AddEntry(ScoredLists, OneEntryInputs, MaxListEntries)
  \/ OnDragEnd(ScoredLists)
  \/ HandleReview
  \/ SetStudentLevel
  \/ ResolveTeachingPoints
  \/ ResolveAssessment
  \/ ResolveAll
  \/ RejectRequest

SpecReview == InitLists /\ [][NextReview]_vars

\* the review with the learner level changed before the answers arrive: several calls
\* are in flight and are answered or refused in any order
NextOverlap ==
  \/ StartCase
  \/ AddEntry(ScoredLists, OneTextInputs, MaxEntries)
  \/ HandleReview
  \/ SetStudentLevelWithin(MaxOverlap)
  \/ ResolveTeachingPoints
  \/ ResolveAssessment
  \/ ResolveAll
  \/ RejectRequest

SpecOverlap == InitLists /\ [][NextOverlap]_vars

\* an await of a call in flight settles: the promise resolves or rejects
Settle == ResolveTeachingPoints \/ ResolveAssessment \/ ResolveAll \/ RejectRequest

\* the same review, every external call resolving or rejecting in the end
SpecReviewFair == InitLists /\ [][NextReview]_vars /\ WF_vars(Settle)

\* a new case started from any state: the handlers called directly, in the middle of a
\* review, with entries in the four lists and requests in flight
NextStart ==
  \/ HandleCaseUpload(RetypedNarratives)
  \/ StartCase
  \/ AddEntry(ListNames, OneTextInputs, MaxEntries)
  \/ HandleReview
  \/ ResolveTeachingPoints
  \/ ResolveAssessment
  \/ ResolveAll
  \/ RejectRequest

SpecStart == InitHandlers /\ [][NextStart]_vars

(***************************************************************************)
(* What the claims speak of, said without the code's own scanning.         *)
(***************************************************************************)
\* a line on which the marker is followed by separators and then by a value:
\* p is where the marker stands, q where the value starts
MarkerWithValue(line, p, q) ==
  /\ line[p] = Marker
  /\ p + 2 <= q
  /\ q <= Len(line)
  /\ \A j \in (p + 1)..(q - 1) : (line[j] = Colon \/ line[j] = Blank)

HasMarkerWithValue(line) ==
  \E p \in 1..Len(line), q \in 1..Len(line) : MarkerWithValue(line, p, q)

\* the lines of a text: the stretches between its line feeds, without blanks at the ends
LineBreaks(text) == {0, Len(text) + 1} \cup {i \in 1..Len(text) : text[i] = LineFeed}

TrimmedLines(text) ==
  {Trim(SubSeq(text, a + 1, b - 1)) :
     <<a, b>> \in {ab \in LineBreaks(text) \X LineBreaks(text) :
                     /\ ab[1] < ab[2]
                     /\ \A c \in LineBreaks(text) : ~(ab[1] < c /\ c < ab[2])}}

\* the narrative has a marker line
HasMarkerLine(text) == \E line \in TrimmedLines(text) : HasMarkerWithValue(line)

\* the line feeds that end a line before the last marker line starts
LastMarkerLine(text) ==
  LET B == LineBreaks(text)
      Starts == {a \in B \ {Len(text) + 1} :
                   LET b == CHOOSE c \in B : c > a /\ \A d \in B : ~(a < d /\ d < c)
                   IN HasMarkerWithValue(Trim(SubSeq(text, a + 1, b - 1)))}
      a == CHOOSE x \in Starts : \A y \in Starts : y <= x
      b == CHOOSE c \in B : c > a /\ \A d \in B : ~(a < d /\ d < c)
  IN Trim(SubSeq(text, a + 1, b - 1))

\* what follows the first marker of the line and its separators, the separators taken as
\* far as a value is left
ValueAfterMarker(line) ==
  LET P == {p \in 1..Len(line) : \E q \in 1..Len(line) : MarkerWithValue(line, p, q)}
      p == CHOOSE x \in P : \A y \in P : x <= y
      Q == {q \in 1..Len(line) : MarkerWithValue(line, p, q)}
      q == CHOOSE x \in Q : \A y \in Q : y <= x
  IN Trim(SubSeq(line, q, Len(line)))

\* sub occurs in s
Contains(s, sub) ==
  \E i \in 0..(Len(s) - Len(sub)) : SubSeq(s, i + 1, i + Len(sub)) = sub

\* s without its blanks and line feeds
RECURSIVE WithoutSpaces(_)
WithoutSpaces(s) ==
  IF s = <<>> THEN <<>>
  ELSE (IF IsSpace(Head(s)) THEN <<>> ELSE <<Head(s)>>) \o WithoutSpaces(Tail(s))

\* the marker of a marker line with all that follows it on the line
MarkerAndValue(line) ==
  LET P == {p \in 1..Len(line) : \E q \in 1..Len(line) : MarkerWithValue(line, p, q)}
      p == CHOOSE x \in P : \A y \in P : x <= y
  IN SubSeq(line, p, Len(line))

(***************************************************************************)
(* The claims.                                                             *)
(***************************************************************************)
\* C1: during a case the visible count never exceeds the number of chunks, also right
\* after start-case on a narrative whose marker-stripped text yields no chunk.
C1_VisibleWithinChunks == visibleIndex <= Len(chunks)

\* C2: for a started narrative that has a marker line, the concatenation of all chunks
\* does not contain the diagnosis line (the marker and its value).
C2_NoDiagnosisInChunks ==
  (isCaseLoaded /\ HasMarkerLine(caseText))
    => ~Contains(Join(chunks), MarkerAndValue(LastMarkerLine(caseText)))

\* C3: a started non-empty narrative has at least one chunk, and a narrative with no
\* sentence terminator has exactly one.
C3_NonEmptyChunks ==
  (isCaseLoaded /\ Trim(caseText) # <<>>)
    => /\ Len(chunks) >= 1
       /\ (\A i \in 1..Len(caseText) : caseText[i] # Terminator) => Len(chunks) = 1

\* C4: for a started narrative without a marker, the chunks concatenated in order are the
\* narrative up to blanks and line feeds: no sentence and no trailing fragment is lost.
C4_ContentPreserved ==
  (isCaseLoaded /\ \A i \in 1..Len(caseText) : caseText[i] # Marker)
    => WithoutSpaces(Join(chunks)) = WithoutSpaces(caseText)

C6_NoMarkerNoRequest ==
  [][(~HasMarkerLine(caseText) /\ (HandleReview \/ SetStudentLevel))
       => /\ extractFinalDiagnosis(caseText) = <<>>
          /\ (finalDiagnosis' = <<>> \/ finalDiagnosis' = DiagnosisNotSpecified)
          /\ fetches' = fetches
          /\ loadingPoints' => loadingPoints]_vars

\* C6 witness: a narrative with no marker line is in review, the level was changed, and
\* nothing is in flight or loading
C6_Witness ==
  /\ reviewMode
  /\ Trim(caseText) # <<>>
  /\ ~HasMarkerLine(caseText)
  /\ studentLevel # "MS-3"
  /\ fetches = <<>>
  /\ ~loadingPoints

\* C7: the visible count never decreases in a step other than the reset.
C7_VisibleNeverDecreases == [][visibleIndex' < visibleIndex => Reset]_vars

\* C8: reveal-next raises the visible count by exactly one when it is below the chunk
\* count, and changes nothing (visible count, chunks, lists, review flag) when it equals
\* the chunk count.
C8_RevealNext ==
  [][NextParagraph
       => /\ visibleIndex < Len(chunks) => visibleIndex' = visibleIndex + 1
          /\ visibleIndex = Len(chunks)
               => UNCHANGED <<visibleIndex, chunks, entryLists, reviewMode>>]_vars

\* C8 witness: two chunks were revealed one by one and reveal-next was called once more,
\* to no effect
C8_Witness ==
  /\ ignored = "nextParagraph"
  /\ Len(chunks) = 2
  /\ visibleIndex = 2
  /\ ~reviewMode

\* C9: review mode becomes true only in the enter-review step, and while it is true the
\* visible count changes in no step but the reset.
C9_ReviewFreezesDisclosure ==
  [][/\ (reviewMode' /\ ~reviewMode) => HandleReview
     /\ (reviewMode /\ ~Reset) => visibleIndex' = visibleIndex]_vars

\* C9 witness: review was entered before all chunks were revealed, and a step was taken
\* in the review
C9_Witness ==
  /\ reviewMode
  /\ 1 <= visibleIndex
  /\ visibleIndex < Len(chunks)
  /\ studentLevel # "MS-3"

\* C10: start-case on an empty or whitespace-only narrative changes nothing of the
\* session: it stays in the pre-case state.
C10_BlankStartIgnored ==
  [][(StartCase /\ Trim(caseText) = <<>>)
       => UNCHANGED <<caseText, chunks, visibleIndex, isCaseLoaded, entryLists, reviewMode,
                      finalDiagnosis, teachingPoints, studentLevel, loadingPoints,
                      fetches>>]_vars

\* C10 witness: start-case was called on a whitespace-only narrative and the session is
\* still in the pre-case state
C10_Witness ==
  /\ ignored = "startCase"
  /\ caseText = <<Blank>>
  /\ ~isCaseLoaded
  /\ chunks = <<>>
  /\ visibleIndex = 0
  /\ ~reviewMode

\* the entries of the four lists, one list after the other
AllEntries == differentials \o labs \o diagnostics \o treatments

\* the identifier and text of every entry of a list
IdsAndTexts(list) == {<<list[i].id, list[i].text>> : i \in 1..Len(list)}

\* the inputs that are empty or whitespace only, and the positions of a list
BlankInputs == {<<>>, <<Blank>>}
Positions == 0..(MaxListEntries - 1)
Destinations == -1..(MaxListEntries - 1)

\* C11: after a full reset the visible count is 0, the chunk sequence is empty, review
\* mode is off, the raw text and the diagnosis are empty and no case is loaded.
C11_ResetClearsSession ==
  [][Reset => /\ visibleIndex' = 0
              /\ chunks' = <<>>
              /\ ~reviewMode'
              /\ caseText' = <<>>
              /\ finalDiagnosis' = <<>>
              /\ ~isCaseLoaded']_vars

\* C12: right after a full reset the four entry lists are empty, and no other action
\* removes an entry from a list.
C12_OnlyResetClearsLists ==
  [][IF Reset
     THEN AllEntries' = <<>>
     ELSE \A name \in ListNames : Len(ListOf(name)') >= Len(ListOf(name))]_vars

\* C13: appending an empty or whitespace-only string to any of the four lists leaves
\* that list and every other list unchanged.
C13_BlankAppendIgnored ==
  [][AddEntry(ListNames, BlankInputs, MaxListEntries) => UNCHANGED entryLists]_vars

\* C13 witness: a blank string was appended to lists that hold entries, and was ignored
C13_Witness ==
  /\ ignored = "addEntry"
  /\ Len(AllEntries) = MaxListEntries - 1
  /\ ~reviewMode

\* C14: appending a text whose trimmed form is not empty adds exactly one entry at the
\* end of the target list, with the trimmed text and no relevance score; the prior entries
\* keep their order, ids, texts and scores, and the other three lists are unchanged.
C14_AppendAddsOneEntry ==
  [][\A name \in ListNames, value \in TextInputs :
       (Trim(value) # <<>> /\ AddEntry({name}, {value}, MaxListEntries))
         => LET old == ListOf(name)
                new == ListOf(name)'
            IN /\ Len(new) = Len(old) + 1
               /\ SubSeq(new, 1, Len(old)) = old
               /\ new[Len(new)].text = Trim(value)
               /\ new[Len(new)].relevanceScore = Undefined
               /\ \A other \in ListNames \ {name} : ListOf(other)' = ListOf(other)]_vars

\* C14 witness: a text with a leading blank was appended after another entry of the list
C14_Witness ==
  \E name \in ListNames :
    /\ Len(ListOf(name)) = 2
    /\ ListOf(name)[2].text = <<Letter>>
    /\ ListOf(name)[1].text = <<NotSpecifiedWords>>

\* C15: within a session all entries of the four lists have pairwise distinct
\* identifiers, and the identifier of an entry never changes after its creation.
C15_IdsDistinctAndStable ==
  /\ [](\A i, j \in 1..Len(AllEntries) : i # j => AllEntries[i].id # AllEntries[j].id)
  /\ [][~StartCase
          => \A name \in ListNames : IdsAndTexts(ListOf(name)) \subseteq IdsAndTexts(ListOf(name)')]_vars

C17_ScoresMergedByPosition ==
  [][settled'.scores.status = "resolved"
       => /\ Len(differentials') = Len(differentials)
          /\ \A i \in 1..Len(differentials) :
               /\ differentials'[i].id = differentials[i].id
               /\ differentials'[i].text = differentials[i].text
               /\ differentials'[i].relevanceScore =
                    IF i <= Len(settled'.scores.value) THEN settled'.scores.value[i] ELSE 0
          /\ UNCHANGED <<labs, diagnostics, treatments>>]_vars

\* C17 witness: a response with one score was merged into two differentials
C17_Witness ==
  /\ settled.scores = Resolved(<<90>>)
  /\ Len(differentials) = 2
  /\ differentials[1].relevanceScore = 90
  /\ differentials[2].relevanceScore = 0

\* C18: when an external call of a review fetch is rejected, the session stays in the
\* mode it is in, the teaching points keep their value, no differential gets a score,
\* and no request is issued again.
C18_FailureContained ==
  [][(settled'.points.status = "rejected" \/ settled'.scores.status = "rejected")
       => /\ reviewMode' = reviewMode
          /\ teachingPoints' = teachingPoints
          /\ differentials' = differentials
          /\ Len(fetches') = Len(fetches) - 1]_vars

\* C18 witness: in a review with teaching points on the screen and two differentials a
\* request was rejected, and nothing is in flight
C18_Witness ==
  /\ reviewMode
  /\ (settled.points.status = "rejected" \/ settled.scores.status = "rejected")
  /\ teachingPoints # <<>>
  /\ Len(differentials) = 2
  /\ fetches = <<>>

\* C19: every review fetch that sets the loading flag sets it back to false in the end,
\* whether its calls are answered or rejected, if every call is answered or rejected in
\* the end.
C19_LoadingEnds ==
  /\ [][Len(fetches') < Len(fetches) => ~loadingPoints']_vars
  /\ (loadingPoints ~> ~loadingPoints)

\* C19 witness: a fetch whose call was rejected has set the loading flag back to false
C19_Witness ==
  /\ reviewMode
  /\ settled.points.status = "rejected"
  /\ fetches = <<>>
  /\ ~loadingPoints

\* C20: whenever the teaching-points request of a fetch is answered, the teaching points
\* of the session are replaced by exactly the answer, whatever becomes of the
\* relevance-score request of the same fetch.
C20_AnsweredPointsShown ==
  [][settled'.points.status = "resolved"
       => teachingPoints' = settled'.points.value]_vars

\* C21: a response to a request issued before a reset, arriving after the reset or after
\* the start of the next case, changes neither the teaching points nor the scores nor the
\* loading flag of the later session, and outside the review (where the session has issued
\* no request of its own) the teaching points are empty.
C21_NoDataCrossesSessions ==
  /\ [](~reviewMode => teachingPoints = <<>>)
  /\ [][(~reviewMode /\ settled' # Unsettled)
          => UNCHANGED <<teachingPoints, differentials, loadingPoints>>]_vars

\* C22: getTeachingPoints never raises to its caller: whatever fails inside it (no
\* credentials, a network or service error, a response that cannot be parsed), the promise
\* it returns resolves, with an empty sequence, and the await of the fetch never rejects.
C22_TeachingPointsNeverRaise == settled.points.status # "rejected"

\* an entry of the list carries a relevance score
HasScored(list) == \E i \in 1..Len(list) : list[i].relevanceScore # Undefined

\* C23: in every reachable state no entry of the labs, diagnostics or treatments carries a
\* relevance score, and a differential carries one only if the session is in review mode;
\* a differential gets its score only in a step that merges a scoring response.
C23_ScoresOnlyFromReview ==
  /\ [](/\ ~HasScored(labs) /\ ~HasScored(diagnostics) /\ ~HasScored(treatments)
        /\ HasScored(differentials) => reviewMode)
  /\ [][(HasScored(differentials') /\ ~HasScored(differentials))
          => (reviewMode' /\ settled'.scores.status = "resolved")]_vars

\* what startCase leaves behind when it goes through: the first chunk of the chunks newly
\* computed from the narrative is visible, review mode is off, and the four lists, the
\* diagnosis and the teaching points are empty
StartedAfresh ==
  /\ visibleIndex' = 1
  /\ chunks' = (IF variant = WholeText THEN ChunksWholeText(caseText)
                                       ELSE ChunksByParagraph(caseText))
  /\ ~reviewMode'
  /\ AllEntries' = <<>>
  /\ finalDiagnosis' = <<>>
  /\ teachingPoints' = <<>>

\* C24, as stated: start-case with a non-empty narrative sets the visible count to 1 and
\* the chunks to those newly computed from the narrative, turns review mode off and
\* empties the four lists, the diagnosis and the teaching points, whatever the state before.
C24_StartCaseNonEmpty ==
  [][(StartCase /\ caseText # <<>>) => StartedAfresh]_vars

\* C24, amended: the same for a narrative that is not empty after trimming; a narrative
\* of blanks and line feeds only is not started.
C24_StartCaseStartsAfresh ==
  [][(StartCase /\ Trim(caseText) # <<>>) => StartedAfresh]_vars

\* C24 witness: a case was started in the middle of a review whose request is still in
\* flight, and the session is that of a case just started
C24_Witness ==
  /\ isCaseLoaded
  /\ ~reviewMode
  /\ fetches # <<>>
  /\ loadingPoints
  /\ visibleIndex = 1
  /\ Len(chunks) = 2
  /\ AllEntries = <<>>
  /\ finalDiagnosis = <<>>
  /\ teachingPoints = <<>>

\* the sentence sequences start-case groups: that of the marker-stripped text in
\* part_000, that of every non-blank paragraph in part_001
SentenceGroups(text) ==
  IF variant = WholeText
  THEN <<Sentences(textWithoutSolution(text), TRUE)>>
  ELSE LET paragraphs == NonBlankOnly(SplitParagraphs(text))
       IN [k \in 1..Len(paragraphs) |-> Sentences(paragraphs[k], FALSE)]

\* the number of runs of G sentences a group falls into, the last one possibly shorter
RunsOf(group) == (Len(group) + sentencesPerChunk - 1) \div sentencesPerChunk

\* the k-th run of a group: G consecutive sentences, fewer in the last run
RunOf(group, k) ==
  SubSeq(group, sentencesPerChunk * (k - 1) + 1,
         IF sentencesPerChunk * k < Len(group) THEN sentencesPerChunk * k ELSE Len(group))

\* the runs of all groups, group after group, each run joined and trimmed
RECURSIVE JoinedRuns(_)
JoinedRuns(groups) ==
  IF groups = <<>> THEN <<>>
  ELSE [k \in 1..RunsOf(Head(groups)) |-> Trim(Join(RunOf(Head(groups), k)))]
         \o JoinedRuns(Tail(groups))

ScoreRequestUnissued(f) == f.stage = "points" /\ Len(f.texts) > 0

\* entering review with a non-empty extracted diagnosis puts a fetch in flight that
\* requests the teaching points for (diagnosis, current level) and holds the differential
\* texts in the order of the list
ReviewPutsFetchInFlight ==
  [][(HandleReview /\ extractFinalDiagnosis(caseText) # <<>>)
       => /\ Len(fetches') = Len(fetches) + 1
          /\ fetches'[Len(fetches')].diagnosis = extractFinalDiagnosis(caseText)
          /\ fetches'[Len(fetches')].level = studentLevel
          /\ fetches'[Len(fetches')].texts = TextsOf(differentials)]_vars

\* C26: on entering review with a non-empty extracted diagnosis a teaching-points request
\* for (diagnosis, current level) is issued; when the differential list is not empty a
\* relevance-score request for (diagnosis, the texts in list order) is issued too, whatever
\* becomes of the teaching-points request, so no fetch ends with that request unissued; and
\* when the list is empty no relevance-score request is issued.
C26_BothRequestsIssued ==
  /\ ReviewPutsFetchInFlight
  /\ [][\A i \in 1..Len(fetches) :
          (fetches' = RemoveAt(fetches, i)) => ~ScoreRequestUnissued(fetches[i])]_vars
  /\ [](\A i \in 1..Len(fetches) :
          Len(fetches[i].texts) = 0 => fetches[i].stage # "scores")

\* C27: for a diagnosis the fetch is made for, the review fetch is triggered exactly once
\* when review mode is entered and exactly once more for each change of the learner level
\* in review mode; no other step triggers it, in particular not the merge of scores nor
\* the replacement of the teaching points; and a level change leaves the diagnosis as it is.
C27_FetchTriggers ==
  [][/\ (HandleReview /\ FetchGuard(finalDiagnosis'))
          => Len(fetches') = Len(fetches) + 1
     /\ (SetStudentLevelWithin(MaxOverlap) /\ reviewMode /\ FetchGuard(finalDiagnosis))
          => /\ Len(fetches') = Len(fetches) + 1
             /\ fetches'[Len(fetches')].level = studentLevel'
             /\ finalDiagnosis' = finalDiagnosis
     /\ Len(fetches') > Len(fetches)
          => (HandleReview \/ SetStudentLevelWithin(MaxOverlap))
     /\ settled' # Unsettled
          => \E i \in 1..Len(fetches) :
               \/ fetches' = RemoveAt(fetches, i)
               \/ fetches' = [fetches EXCEPT ![i].stage = "scores"]]_vars

\* C27 witness: the fetch of the entry into review has been answered with teaching points
\* and scores, the level was then changed twice, and the two fetches in flight are those
\* of the two changes
C27_Witness ==
  /\ reviewMode
  /\ Len(teachingPoints) = 1
  /\ teachingPoints[1].level = "MS-3"
  /\ HasScored(differentials)
  /\ studentLevel = "MS-3"
  /\ Len(fetches) = 2
  /\ fetches[1].level = "MS-4"
  /\ fetches[2].level = "MS-3"
  /\ fetches[2].diagnosis = finalDiagnosis

\* C28: when the learner level is changed while an earlier review fetch is in flight, the
\* earlier answer is still applied when it arrives: every answered teaching-points request
\* of a fetch whose requests are not refused replaces the teaching points, whatever level
\* it was made for, and in the review nothing else changes them; so after all fetches have
\* been answered the teaching points are those of the fetch answered last, which may be
\* for another level than the one selected.
C28_LastResolvedWins ==
  [][/\ (settled'.points.status = "resolved" /\ settled'.scores.status # "rejected")
          => teachingPoints' = settled'.points.value
     /\ (reviewMode /\ reviewMode' /\ teachingPoints' # teachingPoints)
          => settled'.points.status = "resolved"]_vars

\* C28 witness: the level was changed in review before the first fetch was answered; the
\* fetch of the new level was answered first and the earlier one last, and the teaching
\* points shown are those of the earlier level
C28_Witness ==
  /\ reviewMode
  /\ fetches = <<>>
  /\ studentLevel = "MS-4"
  /\ settled.points.status = "resolved"
  /\ Len(teachingPoints) = 1
  /\ teachingPoints[1].level = "MS-3"

\* C29: in every reachable state the loading flag is true whenever at least one review
\* fetch is in flight, also when of two overlapping fetches the first has finished.
C29_LoadingWhileInFlight == fetches # <<>> => loadingPoints

\* the values of the marker occurrences that caseText.replace(...) removes, trimmed: what
\* [^\n]+ matches in each match of the global scan
RemovedMarkerValues(s) ==
  LET RECURSIVE Go(_)
      Go(i) ==
        IF i > Len(s) THEN {}
        ELSE LET q == MarkerValueStart(s, i)
             IN IF q = 0 THEN Go(i + 1)
                ELSE {Trim(SubSeq(s, q, MarkerMatchEnd(s, q)))}
                       \cup Go(MarkerMatchEnd(s, q) + 1)
  IN Go(1)

\* C30: in part_000 the marker removal of start-case and the extraction of the review
\* agree on every narrative: start-case removes text as a marker if and only if
\* extractFinalDiagnosis returns a non-empty diagnosis for the same text, and every value
\* it removes is the extracted one, also when the marker is followed by a line break or
\* occurs more than once.
C30_RemovalAgreesWithExtraction ==
  (variant = WholeText /\ isCaseLoaded)
    => /\ (RemovedMarkerValues(caseText) # {}) <=> (extractFinalDiagnosis(caseText) # <<>>)
       /\ \A value \in RemovedMarkerValues(caseText) :
            value = extractFinalDiagnosis(caseText)

====
